---- MODULE Spec2Model ----
(***************************************************************************)
(* Calculation engine of the mutual-fund calculators (src/src/calculator.py)*)
(* as a state machine: a caller invokes one entry point with scalar inputs, *)
(* the engine returns a mapping from field names to values, the caller      *)
(* consumes it.  The engine keeps no state between calls.                   *)
(*                                                                          *)
(* Python floats are modelled as IEEE 754 binary64 numbers: a sign, a       *)
(* 53-bit significand held as limbs of base BASE (least significant limb    *)
(* first) and a binary exponent.  Sums, products and quotients are rounded  *)
(* to nearest, ties to even; round(x, 2) is the round-half-to-even of       *)
(* Python 3 on the exact binary value.                                      *)
(***************************************************************************)
EXTENDS Integers, Sequences, FiniteSets, TLC

VARIABLES pc, call, result

vars == <<pc, call, result>>

----------------------------------------------------------------------------
(* Floats: IEEE 754 binary64, as Python's float                            *)

\* A natural number is a sequence of limbs in base BASE, lowest limb first.
BASE == 8192
LIMB_BITS == 13

\* A float is (-1)^neg * mag * 2^exp, its magnitude mag a natural of exactly
\* MANT_BITS bits in MANT_LIMBS limbs; zero has a magnitude of zero limbs
MANT_BITS == 53
MANT_LIMBS == 5
\* the limbs kept of a product inside a power
POW_LIMBS == 7
\* the shift, in limbs, of the numerator of a quotient by a divisor of up to
\* two limbs
SHORT_SHIFT == 6

\* n zero limbs
Zeros(n) == [k \in 1..n |-> 0]

ZeroMag == Zeros(MANT_LIMBS)

\* a, lengthened to n limbs
Pad(a, n) == [k \in 1..n |-> IF k <= Len(a) THEN a[k] ELSE 0]

RECURSIVE Prop(_, _, _, _, _)
\* carries (or borrows) propagated through the n raw limbs, lowest first
Prop(raw, n, k, c, acc) ==
    IF k > n THEN acc
    ELSE Prop(raw, n, k + 1, (raw[k] + c) \div BASE, Append(acc, (raw[k] + c) % BASE))

Norm(raw) == Prop(raw, Len(raw), 1, 0, <<>>)

RECURSIVE CmpFrom(_, _, _)
\* -1, 0, 1: the order of two magnitudes of equal length, from limb k down
CmpFrom(a, b, k) ==
    IF k = 0 THEN 0
    ELSE IF a[k] > b[k] THEN 1
    ELSE IF a[k] < b[k] THEN -1
    ELSE CmpFrom(a, b, k - 1)

CmpMag(a, b) == CmpFrom(a, b, Len(a))

\* a + b, of the length of a (which has room for the carry)
AddMag(a, b) == Norm([k \in 1..Len(a) |-> a[k] + (IF k <= Len(b) THEN b[k] ELSE 0)])

\* a - b for a >= b, of the length of a
SubMag(a, b) == Norm([k \in 1..Len(a) |-> a[k] - (IF k <= Len(b) THEN b[k] ELSE 0)])

RECURSIVE ConvSum(_, _, _, _, _)
ConvSum(a, b, k, i, hi) ==
    IF i > hi THEN 0
    ELSE a[i] * b[k + 1 - i] + ConvSum(a, b, k, i + 1, hi)

\* the product, of Len(a) + Len(b) limbs
MulMag(a, b) ==
    Norm([k \in 1..(Len(a) + Len(b)) |->
            ConvSum(a, b, k,
                    IF k > Len(b) THEN k + 1 - Len(b) ELSE 1,
                    IF k > Len(a) THEN Len(a) ELSE k)])

ShortMul(a, q) == Norm([k \in 1..Len(a) |-> a[k] * q])

RECURSIVE TopLimb(_, _)
\* the index of the highest limb of a that is not zero (0 when a is zero)
TopLimb(a, k) ==
    IF k = 0 THEN 0
    ELSE IF a[k] # 0 THEN k
    ELSE TopLimb(a, k - 1)

\* the number of bits of a limb v > 0
LimbLen(v) == CHOOSE n \in 1..LIMB_BITS : 2^(n - 1) <= v /\ v < 2^n

\* the number of bits of a whose highest limb is limb t
BitLenAt(a, t) == IF t = 0 THEN 0 ELSE (t - 1) * LIMB_BITS + LimbLen(a[t])

BitLen(a) == BitLenAt(a, TopLimb(a, Len(a)))

\* a * 2^s
ShiftLeft(a, s) ==
    Zeros(s \div LIMB_BITS) \o ShortMul(Append(a, 0), 2^(s % LIMB_BITS))

RECURSIVE ShortDiv(_, _, _, _, _)
\* division of n by the single limb d, most significant limb first
ShortDiv(n, d, k, rem, acc) ==
    IF k = 0 THEN acc
    ELSE LET cur == rem * BASE + n[k]
         IN  ShortDiv(n, d, k - 1, cur % d, <<cur \div d>> \o acc)

\* the limbs of a from limb k up
LimbsFrom(a, k) == IF k > Len(a) THEN <<>> ELSE SubSeq(a, k, Len(a))

\* a \div 2^s
ShiftRight(a, s) ==
    ShortDiv(LimbsFrom(a, s \div LIMB_BITS + 1), 2^(s % LIMB_BITS),
             Len(LimbsFrom(a, s \div LIMB_BITS + 1)), 0, <<>>)

\* bit s of a (bit 0 is the lowest)
BitOf(a, s) ==
    IF s \div LIMB_BITS + 1 > Len(a) THEN 0
    ELSE (a[s \div LIMB_BITS + 1] \div 2^(s % LIMB_BITS)) % 2

\* the bits of a below bit s are all zero
LowBitsZero(a, s) ==
    /\ \A k \in 1..Len(a) : k <= s \div LIMB_BITS => a[k] = 0
    /\ s \div LIMB_BITS + 1 <= Len(a) =>
          a[s \div LIMB_BITS + 1] % 2^(s % LIMB_BITS) = 0

RECURSIVE QDigit(_, _, _, _)
\* the largest q in lo..hi with q * b <= r
QDigit(r, b, lo, hi) ==
    IF lo >= hi THEN lo
    ELSE LET mid == (lo + hi + 1) \div 2
         IN  IF CmpMag(ShortMul(b, mid), r) <= 0
             THEN QDigit(r, b, mid, hi)
             ELSE QDigit(r, b, lo, mid - 1)

RECURSIVE DivStep(_, _, _, _, _, _)
\* the quotient limb q taken from the running remainder rs
DivTake(n, b, t, k, rs, acc, q) ==
    DivStep(n, b, t, k - 1, SubSeq(SubMag(rs, ShortMul(b, q)), 1, Len(b) - 1),
            <<q>> \o acc)

\* the quotient limb of the running remainder rs: the two top limbs rt of rs
\* over the top limb of the divisor bracket it
DivDigit(n, b, t, k, rs, acc, rt) ==
    IF CmpMag(rs, b) < 0
    THEN DivStep(n, b, t, k - 1, SubSeq(rs, 1, Len(b) - 1), <<0>> \o acc)
    ELSE DivTake(n, b, t, k, rs, acc,
                 QDigit(rs, b, rt \div (b[t] + 1),
                        IF rt \div b[t] > BASE - 1 THEN BASE - 1 ELSE rt \div b[t]))

\* long division, most significant limb of the numerator n first; t is the
\* top limb of the divisor b, which has one limb more, of zero
DivStep(n, b, t, k, r, acc) ==
    IF k = 0 THEN acc
    ELSE DivDigit(n, b, t, k, <<n[k]>> \o r, acc, r[t] * BASE + (<<n[k]>> \o r)[t])

\* n \div b for a divisor b whose highest limb is limb t; both operands are
\* first scaled by f so that the divisor's top limb is at least BASE/2
DivScaled(n, b, t, f) ==
    DivStep(ShortMul(Append(n, 0), f), ShortMul(Append(SubSeq(b, 1, t), 0), f),
            t, Len(n) + 1, Zeros(t), <<>>)

\* n \div b for a divisor b > 0
DivMag(n, b) ==
    IF TopLimb(b, Len(b)) = 1 THEN ShortDiv(n, b[1], Len(n), 0, <<>>)
    ELSE DivScaled(n, b, TopLimb(b, Len(b)), BASE \div (b[TopLimb(b, Len(b))] + 1))

Zero == [neg |-> FALSE, mag |-> ZeroMag, exp |-> 0]

\* the float nearest to n * 2^e (n of len > 0 bits), a tie to the even
\* magnitude; sticky: the number is a little more than n * 2^e
RoundBits(neg, n, e, sticky, len) ==
    IF len <= MANT_BITS
    THEN [neg |-> neg,
          mag |-> Pad(ShiftLeft(n, MANT_BITS - len), MANT_LIMBS),
          exp |-> e - (MANT_BITS - len)]
    ELSE LET up == /\ BitOf(n, len - MANT_BITS - 1) = 1
                   /\ \/ sticky
                      \/ ~LowBitsZero(n, len - MANT_BITS - 1)
                      \/ BitOf(n, len - MANT_BITS) = 1
             q  == AddMag(Pad(ShiftRight(n, len - MANT_BITS), MANT_LIMBS),
                          IF up THEN <<1>> ELSE <<0>>)
         IN  IF q[MANT_LIMBS] > 1
             THEN [neg |-> neg,
                   mag |-> Pad(ShiftRight(q, 1), MANT_LIMBS),
                   exp |-> e + (len - MANT_BITS) + 1]
             ELSE [neg |-> neg, mag |-> q, exp |-> e + (len - MANT_BITS)]

RoundPack(neg, n, e, sticky) ==
    IF TopLimb(n, Len(n)) = 0 THEN Zero
    ELSE RoundBits(neg, n, e, sticky, BitLen(n))

\* the natural i < 2^31
NatOf(i) == <<i % BASE, (i \div BASE) % BASE, i \div (BASE * BASE)>>

\* the float nearest to k / d, for naturals k > 0 and d > 0: the quotient q is
\* that of n = k * BASE^s, a shift s that gives q more than MANT_BITS + 1 bits
RatioOf(neg, n, d, s, q) ==
    RoundPack(neg, q, -(s * LIMB_BITS), MulMag(q, d) # Pad(n, Len(q) + Len(d)))

Ratio(neg, k, d, s) == RatioOf(neg, Zeros(s) \o k, d, s, DivMag(Zeros(s) \o k, d))

\* the float of the int i, 0 <= i < 2^31
Whole(i) == RoundPack(FALSE, NatOf(i), 0, FALSE)

\* the float written i.ffff: i + f/10000, for naturals i < 2^31 and f < 10000
Dec(i, f) ==
    IF i = 0 /\ f = 0 THEN Zero
    ELSE Ratio(FALSE, AddMag(ShortMul(NatOf(i) \o <<0, 0>>, 10000), <<f>>),
               <<10000 % BASE, 10000 \div BASE>>, SHORT_SHIFT)

\* the float written as c hundredths, for a natural c < 2^31
Cents(c) == IF c = 0 THEN Zero ELSE Ratio(FALSE, NatOf(c), <<100>>, SHORT_SHIFT)

RECURSIVE TenTo(_)
\* the natural 10^p
TenTo(p) == IF p = 0 THEN <<1>> ELSE ShortMul(Append(TenTo(p - 1), 0), 10)

\* the float written i e-p: i / 10^p, for naturals i < 2^31 and p
Sci(i, p) ==
    IF i = 0 THEN Zero ELSE Ratio(FALSE, NatOf(i), TenTo(p), SHORT_SHIFT + Len(TenTo(p)))

IsZero(x) == x.mag = ZeroMag

Neg(x) == IF IsZero(x) THEN x ELSE [x EXCEPT !.neg = ~x.neg]

One == Whole(1)

\* -1, 0, 1: the order of two magnitudes
CmpAbs(x, y) ==
    IF IsZero(x) THEN (IF IsZero(y) THEN 0 ELSE -1)
    ELSE IF IsZero(y) THEN 1
    ELSE IF x.exp # y.exp THEN (IF x.exp > y.exp THEN 1 ELSE -1)
    ELSE CmpMag(x.mag, y.mag)

\* -1, 0, 1: the order of two floats
Cmp(x, y) ==
    IF x.neg /\ ~y.neg THEN -1
    ELSE IF ~x.neg /\ y.neg THEN 1
    ELSE IF x.neg THEN CmpAbs(y, x)
    ELSE CmpAbs(x, y)

Lt(x, y) == Cmp(x, y) < 0
Le(x, y) == Cmp(x, y) <= 0
Gt(x, y) == Cmp(x, y) > 0
Ge(x, y) == Cmp(x, y) >= 0

\* the sum of (-1)^na * a * 2^e and (-1)^nb * b * 2^e, rounded
AddAt(na, a, nb, b, e) ==
    IF na = nb THEN RoundPack(na, AddMag(Append(a, 0), b), e, FALSE)
    ELSE IF CmpMag(a, Pad(b, Len(a))) >= 0 THEN RoundPack(na, SubMag(a, b), e, FALSE)
    ELSE RoundPack(nb, SubMag(Pad(b, Len(a)), a), e, FALSE)

\* x + y for |x| of the exponent not below that of y: a y too small to reach
\* the rounding of x leaves x
AddAligned(x, y) ==
    IF x.exp - y.exp > MANT_LIMBS * LIMB_BITS THEN x
    ELSE AddAt(x.neg, ShiftLeft(x.mag, x.exp - y.exp), y.neg, y.mag, y.exp)

Add(x, y) ==
    IF IsZero(x) THEN y
    ELSE IF IsZero(y) THEN x
    ELSE IF x.exp >= y.exp THEN AddAligned(x, y)
    ELSE AddAligned(y, x)

Sub(x, y) == Add(x, Neg(y))

Mul(x, y) ==
    IF IsZero(x) \/ IsZero(y) THEN Zero
    ELSE RoundPack(x.neg # y.neg, MulMag(x.mag, y.mag), x.exp + y.exp, FALSE)

RECURSIVE LowLimb(_, _)
\* the index of the lowest limb of a, from limb k up, that is not zero
LowLimb(a, k) == IF a[k] # 0 THEN k ELSE LowLimb(a, k + 1)

\* the number of zero bits below the lowest set bit of a limb v > 0
LowBits(v) == CHOOSE n \in 0..(LIMB_BITS - 1) : v % 2^n = 0 /\ (v \div 2^n) % 2 = 1

\* x / (b * 2^e) for an odd natural b: the quotient by b of the magnitude of
\* x, shifted by enough limbs to leave more than MANT_BITS + 1 bits
DivOdd(neg, x, b, e) ==
    [Ratio(neg, x.mag, b, (BitLen(b) + LIMB_BITS + 1) \div LIMB_BITS) EXCEPT
        !.exp = @ + x.exp - e]

\* x / y for the magnitude of y without its z low limbs of zero, which ends
\* in s more bits of zero
DivBy(x, y, z, s) ==
    DivOdd(x.neg # y.neg, x, ShiftRight(LimbsFrom(y.mag, z + 1), s),
           y.exp + z * LIMB_BITS + s)

\* x / y for y # 0
Div(x, y) ==
    IF IsZero(x) THEN Zero
    ELSE DivBy(x, y, LowLimb(y.mag, 1) - 1, LowBits(y.mag[LowLimb(y.mag, 1)]))

\* the product of two powers, cut to its POW_LIMBS highest limbs: t is the
\* highest limb of the product p
PowCut(p, t, e, inexact) ==
    IF t <= POW_LIMBS THEN [mag |-> p, exp |-> e, inexact |-> inexact]
    ELSE [mag     |-> SubSeq(p, t - POW_LIMBS + 1, t),
          exp     |-> e + (t - POW_LIMBS) * LIMB_BITS,
          inexact |-> inexact \/ \E k \in 1..(t - POW_LIMBS) : p[k] # 0]

PowTimes(a, b, p) ==
    PowCut(p, TopLimb(p, Len(p)), a.exp + b.exp, a.inexact \/ b.inexact)

PowMul(a, b) == PowTimes(a, b, MulMag(a.mag, b.mag))

PowSquare(a) == PowMul(a, a)

\* the largest exponent of a float's magnitude: floats are below 2^1024
MAX_EXP == 1024 - MANT_BITS

\* the number of bits of the int n >= 1
IntLen(n) == CHOOSE b \in 1..31 : 2^(b - 1) <= n /\ (b = 31 \/ n < 2^b)

RECURSIVE PowFrom(_, _, _, _)
\* x ** n by squaring, from bit k of n down, acc being the power for the bits
\* above; to POW_LIMBS limbs, never above the power; a power already beyond
\* the float range is not raised any further
PowFrom(x, n, k, acc) ==
    IF k < 0 \/ acc.exp > MAX_EXP THEN acc
    ELSE PowFrom(x, n, k - 1,
                 IF (n \div 2^k) % 2 = 1 THEN PowMul(PowSquare(acc), x)
                 ELSE PowSquare(acc))

PowRounded(neg, p) == RoundPack(neg, p.mag, p.exp, p.inexact)

\* x ** n for an int n >= 0: the float nearest to the power
Pow(x, n) ==
    IF n = 0 THEN One
    ELSE IF IsZero(x) THEN Zero
    ELSE PowRounded(x.neg /\ n % 2 = 1,
                    PowFrom([mag |-> x.mag, exp |-> x.exp, inexact |-> FALSE], n,
                            IntLen(n) - 2,
                            [mag |-> x.mag, exp |-> x.exp, inexact |-> FALSE]))

\* x ** n raises OverflowError: the power is beyond the largest float
PowOverflows(x, n) ==
    /\ n * (x.exp + MANT_BITS) > MAX_EXP + MANT_BITS - 1
    /\ Pow(x, n).exp > MAX_EXP

\* the integer nearest to n / 2^s, a tie to the even integer
NearestShift(n, s) ==
    AddMag(Append(ShiftRight(n, s), 0),
           IF /\ BitOf(n, s - 1) = 1
              /\ (~LowBitsZero(n, s - 1) \/ BitOf(n, s) = 1)
           THEN <<1>> ELSE <<0>>)

\* the float nearest to k hundredths, for a natural k
Hundredths(neg, k) ==
    IF TopLimb(k, Len(k)) = 0 THEN Zero
    ELSE Ratio(neg, SubSeq(k, 1, TopLimb(k, Len(k))), <<100>>,
               SHORT_SHIFT - TopLimb(k, Len(k)))

\* round(x, 2): the float nearest to the hundredth nearest to x, a tie to the
\* even hundredth
Round2(x) ==
    IF IsZero(x) \/ x.exp >= 0 THEN x
    ELSE Hundredths(x.neg, NearestShift(ShortMul(Append(x.mag, 0), 100), -x.exp))

----------------------------------------------------------------------------
(* Tax configuration (TAX_CONFIG)                                          *)

EQUITY_LTCG_THRESHOLD == 125000
EQUITY_LTCG_RATE == Dec(12, 5000)
EQUITY_STCG_RATE == Dec(20, 0)

Hundred == Whole(100)

\* str.lower() on the fund types a caller passes
Lower(s) ==
    CASE s = "Equity" -> "equity"
      [] s = "Debt"   -> "debt"
      [] OTHER        -> s

----------------------------------------------------------------------------
(* Tax calculator                                                          *)

\* fault: a holding of exactly 12 months counted as long-term
is_ltcg_from_12(holding_period_months) == holding_period_months >= 12

\* long-term iff held for more than 12 months
is_ltcg(holding_period_months) == holding_period_months > 12

\* fault: the gain taken from the threshold instead of the threshold from
\* the gain
ltcg_tax_swapped(gain) ==
    IF Gt(gain, Whole(EQUITY_LTCG_THRESHOLD))
    THEN Mul(Sub(Whole(EQUITY_LTCG_THRESHOLD), gain), Div(EQUITY_LTCG_RATE, Hundred))
    ELSE Zero

\* LTCG: 12.5% of the gain above the threshold
ltcg_tax(gain) ==
    IF Gt(gain, Whole(EQUITY_LTCG_THRESHOLD))
    THEN Mul(Sub(gain, Whole(EQUITY_LTCG_THRESHOLD)), Div(EQUITY_LTCG_RATE, Hundred))
    ELSE Zero

\* fault: a gain of exactly the threshold reported as taxable
ltcg_applicable_at_threshold(gain) == Ge(gain, Whole(EQUITY_LTCG_THRESHOLD))

ltcg_applicable(gain) == Gt(gain, Whole(EQUITY_LTCG_THRESHOLD))

\* fault: the STCG rate applied as a factor, not as a percentage
stcg_tax_unscaled(gain) == Mul(gain, EQUITY_STCG_RATE)

\* STCG: 20% of the whole gain
stcg_tax(gain) == Mul(gain, Div(EQUITY_STCG_RATE, Hundred))

\* fault: the tax added to the gain instead of taken from it
after_tax_added(gain, tax_amount) == Add(gain, tax_amount)

\* what is left of the gain once the tax is paid
after_tax(gain, tax_amount) == Sub(gain, tax_amount)

\* fault: the share of the gain that is taxed left as a fraction
effective_tax_rate_fraction(tax_amount, gain) == Div(tax_amount, gain)

\* the tax as a percentage of the (positive) gain
effective_tax_rate(tax_amount, gain) == Mul(Div(tax_amount, gain), Hundred)

calculate_tax_equity(gain, holding_period_months) ==
    IF Le(gain, Zero)
    THEN [gain                  |-> gain,
          tax_applicable        |-> FALSE,
          tax_amount            |-> Zero,
          gain_after_tax        |-> gain,
          effective_tax_rate    |-> Zero,
          holding_period_months |-> holding_period_months]
    ELSE LET ltcg == is_ltcg(holding_period_months)
             tax_amount == IF ltcg THEN ltcg_tax(gain) ELSE stcg_tax(gain)
             tax_applicable == IF ltcg THEN ltcg_applicable(gain) ELSE TRUE
             gain_after_tax == after_tax(gain, tax_amount)
             effective_rate == effective_tax_rate(tax_amount, gain)
         IN  [gain                  |-> Round2(gain),
              tax_applicable        |-> tax_applicable,
              tax_type              |-> IF ltcg THEN "LTCG" ELSE "STCG",
              tax_amount            |-> Round2(tax_amount),
              gain_after_tax        |-> Round2(gain_after_tax),
              effective_tax_rate    |-> Round2(effective_rate),
              holding_period_months |-> holding_period_months,
              tax_rate_applied      |-> IF ltcg THEN EQUITY_LTCG_RATE
                                        ELSE EQUITY_STCG_RATE]

slab_rates ==
    ("0%" :> 0) @@ ("5%" :> 5) @@ ("10%" :> 10) @@
    ("15%" :> 15) @@ ("20%" :> 20) @@ ("30%" :> 30)

\* fault: the slab rate used as a fraction instead of a percentage
debt_tax_unscaled(gain, tax_rate) == Mul(gain, tax_rate)

\* slab% of the gain
debt_tax(gain, tax_rate) == Mul(gain, Div(tax_rate, Hundred))

\* fault: the early return taken for an unknown slab only, so a loss is taxed
debt_untaxed_slab_only(gain, investor_slab) == investor_slab \notin DOMAIN slab_rates

\* the early return of calculate_tax_debt: a loss, or a slab not in slab_rates
debt_untaxed(gain, investor_slab) ==
    Le(gain, Zero) \/ investor_slab \notin DOMAIN slab_rates

calculate_tax_debt(gain, investor_slab) ==
    IF debt_untaxed(gain, investor_slab)
    THEN [gain               |-> gain,
          tax_applicable     |-> Gt(gain, Zero),
          tax_amount         |-> Zero,
          gain_after_tax     |-> gain,
          effective_tax_rate |-> Zero,
          tax_slab           |-> investor_slab]
    ELSE LET tax_rate       == Whole(slab_rates[investor_slab])
             tax_amount     == debt_tax(gain, tax_rate)
             gain_after_tax == after_tax(gain, tax_amount)
         IN  [gain               |-> Round2(gain),
              tax_applicable     |-> TRUE,
              tax_amount         |-> Round2(tax_amount),
              gain_after_tax     |-> Round2(gain_after_tax),
              effective_tax_rate |-> Round2(tax_rate),
              tax_slab           |-> investor_slab,
              tax_rate_applied   |-> tax_rate]

----------------------------------------------------------------------------
(* Growth calculator                                                       *)

InvalidInput == [error |-> "Invalid input values"]

\* the exception a float power beyond the float range raises; it propagates
\* out of the entry point, which has no handler
OverflowError == [fault |-> "OverflowError"]

\* the same with the whole gain added back, the tax left out
with_tax_info_gross(tax_info, total_invested, after_key) ==
    ("tax_info" :> tax_info) @@
    (after_key :> Round2(Add(total_invested, tax_info.gain)))

\* the tax_info obtained, and with it the maturity after tax: the money put in
\* and what the tax leaves of the gain
with_tax_info(tax_info, total_invested, after_key) ==
    ("tax_info" :> tax_info) @@
    (after_key :> Round2(Add(total_invested, tax_info.gain_after_tax)))

\* the tax fields a growth result gets when calculate_tax is set; after_key
\* is the name of its after-tax maturity
TaxFields(total_invested, gain, holding_period_months, fund_type, investor_tax_slab, after_key) ==
    IF Lower(fund_type) = "equity"
    THEN with_tax_info(calculate_tax_equity(gain, holding_period_months),
                       total_invested, after_key)
    ELSE with_tax_info(calculate_tax_debt(gain, investor_tax_slab),
                       total_invested, after_key) @@
         ("investor_tax_slab" :> investor_tax_slab)

\* fault: the operands of the gain swapped
growth_gain_swapped(maturity_amount, total_invested) ==
    Sub(total_invested, maturity_amount)

\* the gain of a growth result: what the maturity exceeds the money put in by
growth_gain(maturity_amount, total_invested) == Sub(maturity_amount, total_invested)

\* fault: the rate-0 branch returns one contribution instead of all of them
SipFutureValue_one_contribution(monthly_investment, monthly_rate, months) ==
    IF IsZero(monthly_rate)
    THEN monthly_investment
    ELSE Mul(monthly_investment,
             Mul(Div(Sub(Pow(Add(One, monthly_rate), months), One), monthly_rate),
                 Add(One, monthly_rate)))

\* fault: an ordinary annuity, contributions credited at the end of the month
SipFutureValue_ordinary(monthly_investment, monthly_rate, months) ==
    IF IsZero(monthly_rate)
    THEN Mul(monthly_investment, Whole(months))
    ELSE Mul(monthly_investment,
             Div(Sub(Pow(Add(One, monthly_rate), months), One), monthly_rate))

\* the power of the annuity formula is beyond the float range (no power is
\* taken at rate 0)
SipOverflows(monthly_rate, months) ==
    ~IsZero(monthly_rate) /\ PowOverflows(Add(One, monthly_rate), months)

\* c * (((1 + r)^n - 1) / r) * (1 + r), or c * n at rate 0
SipFutureValue(monthly_investment, monthly_rate, months) ==
    IF IsZero(monthly_rate)
    THEN Mul(monthly_investment, Whole(months))
    ELSE Mul(monthly_investment,
             Mul(Div(Sub(Pow(Add(One, monthly_rate), months), One), monthly_rate),
                 Add(One, monthly_rate)))

\* the mapping calculate_sip returns, from the maturity and the money
\* invested that it has computed
sip_mapping(monthly_investment, annual_return_rate, years, fund_type, investor_tax_slab, calculate_tax, maturity_amount, total_invested) ==
    LET months          == years * 12
        gain            == growth_gain(maturity_amount, total_invested)
        gain_percentage == IF Gt(total_invested, Zero)
                           THEN Mul(Div(gain, total_invested), Hundred)
                           ELSE Zero
    IN  [maturity_amount    |-> Round2(maturity_amount),
         total_invested     |-> Round2(total_invested),
         gain               |-> Round2(gain),
         gain_percentage    |-> Round2(gain_percentage),
         monthly_investment |-> monthly_investment,
         annual_return      |-> annual_return_rate,
         years              |-> years,
         months             |-> months,
         fund_type          |-> fund_type,
         calculate_tax      |-> calculate_tax]
        @@ (IF calculate_tax
            THEN TaxFields(total_invested, gain, months, fund_type,
                           investor_tax_slab, "maturity_after_tax")
            ELSE <<>>)

calculate_sip(monthly_investment, annual_return_rate, years, fund_type, investor_tax_slab, calculate_tax) ==
    IF Le(monthly_investment, Zero) \/ Lt(annual_return_rate, Zero) \/ years <= 0
    THEN InvalidInput
    ELSE IF SipOverflows(Div(Div(annual_return_rate, Whole(12)), Hundred), years * 12)
    THEN OverflowError
    ELSE sip_mapping(monthly_investment, annual_return_rate, years, fund_type,
                    investor_tax_slab, calculate_tax,
                    SipFutureValue(monthly_investment,
                                   Div(Div(annual_return_rate, Whole(12)), Hundred),
                                   years * 12),
                    Mul(monthly_investment, Whole(years * 12)))

\* fault: simple interest instead of compound interest
LumpsumFutureValue_simple(principal, annual_return_rate, years) ==
    Mul(principal, Add(One, Mul(Div(annual_return_rate, Hundred), Whole(years))))

\* P * (1 + rate/100)^years
LumpsumFutureValue(principal, annual_return_rate, years) ==
    Mul(principal, Pow(Add(One, Div(annual_return_rate, Hundred)), years))

\* the mapping calculate_lumpsum returns, from the maturity it has computed
lumpsum_mapping(principal, annual_return_rate, years, fund_type, investor_tax_slab, calculate_tax, maturity_amount) ==
    LET gain            == growth_gain(maturity_amount, principal)
        gain_percentage == IF Gt(principal, Zero)
                           THEN Mul(Div(gain, principal), Hundred)
                           ELSE Zero
    IN  [maturity_amount |-> Round2(maturity_amount),
         principal       |-> Round2(principal),
         gain            |-> Round2(gain),
         gain_percentage |-> Round2(gain_percentage),
         annual_return   |-> annual_return_rate,
         years           |-> years,
         fund_type       |-> fund_type,
         calculate_tax   |-> calculate_tax]
        @@ (IF calculate_tax
            THEN TaxFields(principal, gain, years * 12, fund_type,
                           investor_tax_slab, "maturity_after_tax")
            ELSE <<>>)

calculate_lumpsum(principal, annual_return_rate, years, fund_type, investor_tax_slab, calculate_tax) ==
    IF Le(principal, Zero) \/ Lt(annual_return_rate, Zero) \/ years <= 0
    THEN InvalidInput
    ELSE IF PowOverflows(Add(One, Div(annual_return_rate, Hundred)), years)
    THEN OverflowError
    ELSE lumpsum_mapping(principal, annual_return_rate, years, fund_type,
                        investor_tax_slab, calculate_tax,
                        LumpsumFutureValue(principal, annual_return_rate, years))

----------------------------------------------------------------------------
(* Comparator                                                              *)

\* the maturity of a growth result that the comparison goes by
compared_maturity(growth_result, calculate_tax) ==
    IF calculate_tax /\ "maturity_after_tax" \in DOMAIN growth_result
    THEN growth_result.maturity_after_tax
    ELSE growth_result.maturity_amount

\* fault: a tie goes to the SIP
better_option_from_tie(sip_maturity, lumpsum_maturity) ==
    IF Ge(sip_maturity, lumpsum_maturity) THEN "SIP" ELSE "Lumpsum"

better_option(sip_maturity, lumpsum_maturity) ==
    IF Gt(sip_maturity, lumpsum_maturity) THEN "SIP" ELSE "Lumpsum"

\* fault: the error result only when both legs are invalid, and the valid leg
\* handed on beside the error otherwise
comparison_partial(sip_result, lumpsum_result, monthly_sip, years, calculate_tax) ==
    IF "fault" \in DOMAIN sip_result THEN sip_result
    ELSE IF "fault" \in DOMAIN lumpsum_result THEN lumpsum_result
    ELSE IF "error" \in DOMAIN sip_result /\ "error" \in DOMAIN lumpsum_result
    THEN InvalidInput
    ELSE IF "error" \in DOMAIN sip_result
    THEN InvalidInput @@ ("lumpsum" :> lumpsum_result)
    ELSE IF "error" \in DOMAIN lumpsum_result
    THEN InvalidInput @@ ("sip" :> sip_result)
    ELSE [sip                |-> sip_result,
          lumpsum            |-> lumpsum_result,
          difference         |-> Round2(Sub(compared_maturity(sip_result, calculate_tax),
                                            compared_maturity(lumpsum_result, calculate_tax))),
          better_option      |-> better_option(compared_maturity(sip_result, calculate_tax),
                                               compared_maturity(lumpsum_result, calculate_tax)),
          total_sip_invested |-> Round2(Mul(Mul(monthly_sip, Whole(years)), Whole(12)))]

\* what compare_investments makes of the two results it has obtained
comparison(sip_result, lumpsum_result, monthly_sip, years, calculate_tax) ==
    IF "fault" \in DOMAIN sip_result THEN sip_result
    ELSE IF "fault" \in DOMAIN lumpsum_result THEN lumpsum_result
    ELSE IF "error" \in DOMAIN sip_result \/ "error" \in DOMAIN lumpsum_result
    THEN InvalidInput
    ELSE LET total_sip_invested == Mul(Mul(monthly_sip, Whole(years)), Whole(12))
             sip_maturity       == compared_maturity(sip_result, calculate_tax)
             lumpsum_maturity   == compared_maturity(lumpsum_result, calculate_tax)
         IN  [sip                |-> sip_result,
              lumpsum            |-> lumpsum_result,
              difference         |-> Round2(Sub(sip_maturity, lumpsum_maturity)),
              better_option      |-> better_option(sip_maturity, lumpsum_maturity),
              total_sip_invested |-> Round2(total_sip_invested)]

compare_investments(monthly_sip, lumpsum, annual_return_rate, years, fund_type, investor_tax_slab, calculate_tax) ==
    comparison(calculate_sip(monthly_sip, annual_return_rate, years,
                             fund_type, investor_tax_slab, calculate_tax),
               calculate_lumpsum(lumpsum, annual_return_rate, years,
                                 fund_type, investor_tax_slab, calculate_tax),
               monthly_sip, years, calculate_tax)

----------------------------------------------------------------------------
(* Required return                                                         *)

RECURSIVE RootStep(_, _, _)
\* Newton's iteration for the n-th root of x, downwards from y until it no
\* longer descends
RootStep(x, n, y) ==
    LET next == Div(Add(Mul(Whole(n - 1), y), Div(x, Pow(y, n - 1))), Whole(n))
    IN  IF Ge(next, y) THEN y ELSE RootStep(x, n, next)

\* x ** (1 / n) for x >= 1 and an int n >= 1
NthRoot(x, n) == RootStep(x, n, Add(One, Div(Sub(x, One), Whole(n))))

\* fault: a target equal to the principal accepted
required_return_refused_below(principal, target_amount, years) ==
    Le(principal, Zero) \/ Lt(target_amount, principal) \/ years <= 0

required_return_refused(principal, target_amount, years) ==
    Le(principal, Zero) \/ Le(target_amount, principal) \/ years <= 0

\* fault: the simple yearly rate, the whole growth divided by the years
required_rate_simple(principal, target_amount, years) ==
    Mul(Div(Sub(Div(target_amount, principal), One), Whole(years)), Hundred)

\* r = ((FV / PV) ** (1 / n) - 1) * 100
required_rate(principal, target_amount, years) ==
    Mul(Sub(NthRoot(Div(target_amount, principal), years), One), Hundred)

calculate_required_return(principal, target_amount, years) ==
    IF required_return_refused(principal, target_amount, years)
    THEN InvalidInput
    ELSE [required_return_percentage |->
              Round2(required_rate(principal, target_amount, years)),
          principal     |-> principal,
          target_amount |-> target_amount,
          years         |-> years]

----------------------------------------------------------------------------
(* Phase composer                                                          *)

\* fault: the hold leg compounded for one year more than it lasts
HoldFutureValue_extra_year(balance, annual_rate, hold_years) ==
    Mul(balance, Pow(Add(One, annual_rate), hold_years + 1))

\* fault: the hold leg compounded at the monthly rate
HoldFutureValue_monthly(balance, annual_rate, hold_years) ==
    Mul(balance, Pow(Add(One, Div(annual_rate, Whole(12))), hold_years))

\* fault: the hold leg earns simple interest on the closing balance
HoldFutureValue_simple(balance, annual_rate, hold_years) ==
    Mul(balance, Add(One, Mul(annual_rate, Whole(hold_years))))

\* balance * (1 + annual_rate)^hold_years: the closing balance of the
\* investment phase left to compound yearly
HoldFutureValue(balance, annual_rate, hold_years) ==
    Mul(balance, Pow(Add(One, annual_rate), hold_years))

\* fault: the years of the holding taken for its months
combined_holding_months_unscaled(investment_years, hold_years) ==
    investment_years + hold_years

\* fault: the holding period of the tax ends with the investment phase
combined_holding_months_investment_only(investment_years, hold_years) ==
    investment_years * 12

\* the holding period the tax is classified by: both phases together
combined_holding_months(investment_years, hold_years) ==
    (investment_years + hold_years) * 12

\* fault: the hold records numbered from 1 again
hold_record_year_restarted(investment_years, hold_year) == hold_year

\* the calendar year of a hold record
hold_record_year(investment_years, hold_year) == investment_years + hold_year

\* fault: the record of a year computed over the months before that year
record_months_before(year) == (year - 1) * 12

\* the months over which the record of an investment year is computed
record_months(year) == year * 12

YearRecord(year, phase, invested, amount, gain) ==
    [year     |-> year,
     phase    |-> phase,
     invested |-> Round2(invested),
     amount   |-> Round2(amount),
     gain     |-> Round2(gain)]

\* the record of an investment year: what has been paid in by then, what it
\* has grown to, and the difference
investment_record(year, amount, invested) ==
    YearRecord(year, "Investment", invested, amount, Sub(amount, invested))

\* the record of a hold year: the money invested stays what it was
hold_record(year, amount, total_invested) ==
    YearRecord(year, "Hold", total_invested, amount, Sub(amount, total_invested))

\* the mapping calculate_sip_with_hold_period returns, from the rates, the
\* closing balance of the investment phase and the money invested that it
\* has computed
sip_hold_mapping(monthly_investment, investment_years, hold_years, annual_return_rate, fund_type, investor_tax_slab, calculate_tax, monthly_rate, annual_rate, maturity_after_investment, total_invested) ==
    LET gain_during_investment ==
            growth_gain(maturity_after_investment, total_invested)
        final_maturity    == HoldFutureValue(maturity_after_investment,
                                             annual_rate, hold_years)
        total_gain        == growth_gain(final_maturity, total_invested)
        total_gain_percentage ==
            IF Gt(total_invested, Zero)
            THEN Mul(Div(total_gain, total_invested), Hundred)
            ELSE Zero
        investment_phase ==
            [year \in 1..investment_years |->
                investment_record(year,
                    SipFutureValue(monthly_investment, monthly_rate, record_months(year)),
                    Mul(monthly_investment, Whole(record_months(year))))]
        hold_phase ==
            [hold_year \in 1..hold_years |->
                hold_record(hold_record_year(investment_years, hold_year),
                    HoldFutureValue(maturity_after_investment, annual_rate, hold_year),
                    total_invested)]
    IN  [type                      |-> "SIP",
         monthly_investment        |-> monthly_investment,
         investment_years          |-> investment_years,
         hold_years                |-> hold_years,
         annual_return             |-> annual_return_rate,
         total_invested            |-> Round2(total_invested),
         maturity_after_investment |-> Round2(maturity_after_investment),
         gain_during_investment    |-> Round2(gain_during_investment),
         final_maturity            |-> Round2(final_maturity),
         total_gain                |-> Round2(total_gain),
         total_gain_percentage     |-> Round2(total_gain_percentage),
         year_wise_data            |-> investment_phase \o hold_phase,
         fund_type                 |-> fund_type,
         calculate_tax             |-> calculate_tax]
        @@ (IF calculate_tax
            THEN TaxFields(total_invested, total_gain,
                           combined_holding_months(investment_years, hold_years),
                           fund_type, investor_tax_slab, "final_maturity_after_tax")
            ELSE <<>>)

calculate_sip_with_hold_period(monthly_investment, investment_years, hold_years, annual_return_rate, fund_type, investor_tax_slab, calculate_tax) ==
    IF Le(monthly_investment, Zero) \/ investment_years <= 0 \/ hold_years < 0
       \/ Lt(annual_return_rate, Zero)
    THEN InvalidInput
    ELSE IF \/ SipOverflows(Div(Div(annual_return_rate, Whole(12)), Hundred),
                            investment_years * 12)
            \/ PowOverflows(Add(One, Div(annual_return_rate, Hundred)), hold_years)
    THEN OverflowError
    ELSE sip_hold_mapping(monthly_investment, investment_years, hold_years,
                         annual_return_rate, fund_type, investor_tax_slab,
                         calculate_tax,
                         Div(Div(annual_return_rate, Whole(12)), Hundred),
                         Div(annual_return_rate, Hundred),
                         SipFutureValue(monthly_investment,
                                        Div(Div(annual_return_rate, Whole(12)), Hundred),
                                        investment_years * 12),
                         Mul(monthly_investment, Whole(investment_years * 12)))

\* the mapping calculate_lumpsum_with_hold_period returns, from the rate and
\* the closing balance of the investment phase that it has computed
lumpsum_hold_mapping(principal, investment_years, hold_years, annual_return_rate, fund_type, investor_tax_slab, calculate_tax, annual_rate, maturity_after_investment) ==
    LET gain_during_investment == growth_gain(maturity_after_investment, principal)
        final_maturity == HoldFutureValue(maturity_after_investment,
                                          annual_rate, hold_years)
        total_gain     == growth_gain(final_maturity, principal)
        total_gain_percentage ==
            IF Gt(principal, Zero)
            THEN Mul(Div(total_gain, principal), Hundred)
            ELSE Zero
        investment_phase ==
            [year \in 1..investment_years |->
                investment_record(year,
                    Mul(principal, Pow(Add(One, annual_rate), year)), principal)]
        hold_phase ==
            [hold_year \in 1..hold_years |->
                hold_record(hold_record_year(investment_years, hold_year),
                    HoldFutureValue(maturity_after_investment, annual_rate, hold_year),
                    principal)]
    IN  [type                      |-> "Lumpsum",
         principal                 |-> principal,
         investment_years          |-> investment_years,
         hold_years                |-> hold_years,
         annual_return             |-> annual_return_rate,
         total_invested            |-> Round2(principal),
         maturity_after_investment |-> Round2(maturity_after_investment),
         gain_during_investment    |-> Round2(gain_during_investment),
         final_maturity            |-> Round2(final_maturity),
         total_gain                |-> Round2(total_gain),
         total_gain_percentage     |-> Round2(total_gain_percentage),
         year_wise_data            |-> investment_phase \o hold_phase,
         fund_type                 |-> fund_type,
         calculate_tax             |-> calculate_tax]
        @@ (IF calculate_tax
            THEN TaxFields(principal, total_gain,
                           combined_holding_months(investment_years, hold_years),
                           fund_type, investor_tax_slab, "final_maturity_after_tax")
            ELSE <<>>)

calculate_lumpsum_with_hold_period(principal, investment_years, hold_years, annual_return_rate, fund_type, investor_tax_slab, calculate_tax) ==
    IF Le(principal, Zero) \/ investment_years <= 0 \/ hold_years < 0
       \/ Lt(annual_return_rate, Zero)
    THEN InvalidInput
    ELSE IF \/ PowOverflows(Add(One, Div(annual_return_rate, Hundred)), investment_years)
            \/ PowOverflows(Add(One, Div(annual_return_rate, Hundred)), hold_years)
    THEN OverflowError
    ELSE lumpsum_hold_mapping(principal, investment_years, hold_years,
                             annual_return_rate, fund_type, investor_tax_slab,
                             calculate_tax,
                             Div(annual_return_rate, Hundred),
                             Mul(principal,
                                 Pow(Add(One, Div(annual_return_rate, Hundred)),
                                     investment_years)))

----------------------------------------------------------------------------
(* Inputs                                                                  *)

MaxMonths == 24
MaxYears == 10
MaxPhaseYears == 2
MaxGainSteps == 3

\* capital gains handed to the tax calculator: losses, zero, the 125000
\* threshold and its neighbours, gains of more than two decimals, and a gain
\* of a hundred crore
GainValues ==
    {Neg(Whole(5000)), Neg(Cents(1)), Zero, Cents(1), Dec(100, 60), Dec(100, 40),
     Whole(125000), Whole(125001), Dec(220642, 7591), Whole(1000000000)}
    \cup {Whole(k * 50000) : k \in 1..MaxGainSteps}

SlabValues == DOMAIN slab_rates \cup {"25%", "40"}

\* contributions and principals
AmountValues ==
    {Neg(Whole(100)), Zero, Dec(0, 10), Whole(5000), Whole(100000)}

\* annual return rates, in percent; the smallest of them is lost when 1 is
\* added to the monthly rate
RateValues == {Neg(Whole(1)), Zero, Sci(1, 13), Whole(5), Whole(12), Whole(50)}

\* fund type, slab and tax flag as the callers combine them
TaxSettings ==
    {[fund_type |-> "equity", investor_tax_slab |-> "30%", calculate_tax |-> TRUE],
     [fund_type |-> "equity", investor_tax_slab |-> "30%", calculate_tax |-> FALSE],
     [fund_type |-> "Debt", investor_tax_slab |-> "10%", calculate_tax |-> TRUE],
     [fund_type |-> "debt", investor_tax_slab |-> "25%", calculate_tax |-> TRUE]}

----------------------------------------------------------------------------
(* The caller and the engine                                               *)

\* the two sides of a comparison: a monthly SIP, and lumpsums among which are
\* 12 and 120 times the SIP
CompareSipValues == {Zero, Whole(5000)}
CompareLumpsumValues == {Neg(Whole(100)), Whole(60000), Whole(600000)}

\* principals and targets of a required-return question, in whole hundredths
PrincipalValues == {Neg(Whole(100)), Zero, Whole(5000), Whole(100000)}
TargetValues ==
    {Zero, Whole(5000), Whole(100000), Dec(100000, 100), Whole(200000),
     Dec(310584, 8200)}

\* durations, in years, of a calculation at the given rate: the short range,
\* and one horizon of twenty centuries at the highest rate (the engine sets
\* no upper bound on a duration)
HorizonValues(annual_return_rate) ==
    (0..MaxYears) \cup (IF annual_return_rate = Whole(50) THEN {2000} ELSE {})

NoCall == [fn |-> "none"]
NoResult == [none |-> TRUE]

\* how a call ends: with the mapping it returns, or with the exception it raises
Outcome(r) == IF "fault" \in DOMAIN r THEN "raised" ELSE "returned"

Init ==
    /\ pc = "ready"
    /\ call = NoCall
    /\ result = NoResult

TaxEquity ==
    /\ pc = "ready"
    /\ \E gain \in GainValues, holding_period_months \in 0..MaxMonths :
          /\ call' = [fn |-> "calculate_tax_equity", gain |-> gain,
                      holding_period_months |-> holding_period_months]
          /\ result' = calculate_tax_equity(gain, holding_period_months)
    /\ pc' = Outcome(result')

TaxDebt ==
    /\ pc = "ready"
    /\ \E gain \in GainValues, investor_slab \in SlabValues :
          /\ call' = [fn |-> "calculate_tax_debt", gain |-> gain,
                      investor_slab |-> investor_slab]
          /\ result' = calculate_tax_debt(gain, investor_slab)
    /\ pc' = Outcome(result')

Sip ==
    /\ pc = "ready"
    /\ \E monthly_investment \in AmountValues, annual_return_rate \in RateValues,
          t \in TaxSettings :
      \E years \in HorizonValues(annual_return_rate) :
          /\ call' = [fn |-> "calculate_sip",
                      monthly_investment |-> monthly_investment,
                      annual_return_rate |-> annual_return_rate,
                      years |-> years] @@ t
          /\ result' = calculate_sip(monthly_investment, annual_return_rate, years,
                                     t.fund_type, t.investor_tax_slab, t.calculate_tax)
    /\ pc' = Outcome(result')

Lumpsum ==
    /\ pc = "ready"
    /\ \E principal \in AmountValues, annual_return_rate \in RateValues,
          t \in TaxSettings :
      \E years \in HorizonValues(annual_return_rate) :
          /\ call' = [fn |-> "calculate_lumpsum",
                      principal |-> principal,
                      annual_return_rate |-> annual_return_rate,
                      years |-> years] @@ t
          /\ result' = calculate_lumpsum(principal, annual_return_rate, years,
                                         t.fund_type, t.investor_tax_slab, t.calculate_tax)
    /\ pc' = Outcome(result')

SipWithHoldPeriod ==
    /\ pc = "ready"
    /\ \E monthly_investment \in AmountValues, annual_return_rate \in RateValues,
          investment_years \in 0..MaxPhaseYears, hold_years \in -1..MaxPhaseYears,
          t \in TaxSettings :
          /\ call' = [fn |-> "calculate_sip_with_hold_period",
                      monthly_investment |-> monthly_investment,
                      investment_years |-> investment_years,
                      hold_years |-> hold_years,
                      annual_return_rate |-> annual_return_rate] @@ t
          /\ result' = calculate_sip_with_hold_period(
                          monthly_investment, investment_years, hold_years,
                          annual_return_rate, t.fund_type, t.investor_tax_slab,
                          t.calculate_tax)
    /\ pc' = Outcome(result')

LumpsumWithHoldPeriod ==
    /\ pc = "ready"
    /\ \E principal \in AmountValues, annual_return_rate \in RateValues,
          investment_years \in 0..MaxPhaseYears, hold_years \in -1..MaxPhaseYears,
          t \in TaxSettings :
          /\ call' = [fn |-> "calculate_lumpsum_with_hold_period",
                      principal |-> principal,
                      investment_years |-> investment_years,
                      hold_years |-> hold_years,
                      annual_return_rate |-> annual_return_rate] @@ t
          /\ result' = calculate_lumpsum_with_hold_period(
                          principal, investment_years, hold_years,
                          annual_return_rate, t.fund_type, t.investor_tax_slab,
                          t.calculate_tax)
    /\ pc' = Outcome(result')

Compare ==
    /\ pc = "ready"
    /\ \E monthly_sip \in CompareSipValues, lumpsum \in CompareLumpsumValues,
          annual_return_rate \in RateValues, years \in 0..MaxYears,
          t \in TaxSettings :
          /\ call' = [fn |-> "compare_investments",
                      monthly_sip |-> monthly_sip,
                      lumpsum |-> lumpsum,
                      annual_return_rate |-> annual_return_rate,
                      years |-> years] @@ t
          /\ result' = compare_investments(monthly_sip, lumpsum, annual_return_rate,
                                           years, t.fund_type, t.investor_tax_slab,
                                           t.calculate_tax)
    /\ pc' = Outcome(result')

RequiredReturn ==
    /\ pc = "ready"
    /\ \E principal \in PrincipalValues, target_amount \in TargetValues,
          years \in 0..MaxYears :
          /\ call' = [fn |-> "calculate_required_return",
                      principal |-> principal,
                      target_amount |-> target_amount,
                      years |-> years]
          /\ result' = calculate_required_return(principal, target_amount, years)
    /\ pc' = Outcome(result')

\* the caller has rendered the result, or the exception has ended its run;
\* nothing of the call is kept
Return ==
    /\ pc \in {"returned", "raised"}
    /\ pc' = "ready"
    /\ call' = NoCall
    /\ result' = NoResult

Next ==
    \/ TaxEquity
    \/ TaxDebt
    \/ Sip
    \/ Lumpsum
    \/ SipWithHoldPeriod
    \/ LumpsumWithHoldPeriod
    \/ Compare
    \/ RequiredReturn
    \/ Return

Spec == Init /\ [][Next]_vars

----------------------------------------------------------------------------
(* Properties                                                              *)

Returned(fn) == pc = "returned" /\ call.fn = fn
IsError == "error" \in DOMAIN result
Cent == Cents(1)
\* |x - y| <= tol, the difference taken to the hundredth: the floats nearest
\* to two amounts one hundredth apart need not differ by the float nearest to
\* one hundredth
Within(x, y, tol) == Le(Round2(Sub(x, y)), tol) /\ Le(Round2(Sub(y, x)), tol)
Max0(x) == IF Lt(x, Zero) THEN Zero ELSE x

\* the slabs the tax calculator documents, with their percentages
EnumeratedSlabs == {"0%", "5%", "10%", "15%", "20%", "30%"}
SlabPercent(s) ==
    CASE s = "0%" -> 0 [] s = "5%" -> 5 [] s = "10%" -> 10
      [] s = "15%" -> 15 [] s = "20%" -> 20 [] s = "30%" -> 30

\* C1: calculate_tax_equity classifies a positive gain as LTCG iff it was held
\* for more than 12 months and as STCG otherwise (12 months exactly is STCG);
\* every STCG result of a positive gain is taxable and its tax is a fifth of
\* the whole gain (100000 held 12 months: 20000).
C1_EquityClassification ==
    (Returned("calculate_tax_equity") /\ Gt(call.gain, Zero)) =>
        /\ result.tax_type \in {"LTCG", "STCG"}
        /\ (result.tax_type = "LTCG") <=> (call.holding_period_months > 12)
        /\ result.tax_type = "STCG" =>
              /\ result.tax_applicable
              /\ result.tax_amount = Round2(Div(call.gain, Whole(5)))
        /\ (call.gain = Whole(100000) /\ call.holding_period_months = 12) =>
              result.tax_amount = Whole(20000)

C1_Witness ==
    /\ Returned("calculate_tax_equity")
    /\ call.gain = Whole(100000)
    /\ call.holding_period_months = 12
    /\ result.tax_type = "STCG"
    /\ result.tax_amount = Whole(20000)

\* C2: for a positive gain held more than 12 months the tax is an eighth of
\* what the gain exceeds 125000 by, and nothing up to 125000; the tax is
\* applicable only strictly above 125000 (125000: not applicable, tax 0;
\* 125001: applicable, tax 0.125 to the nearest hundredth).
C2_LtcgThreshold ==
    (Returned("calculate_tax_equity") /\ Gt(call.gain, Zero)
     /\ call.holding_period_months > 12) =>
        /\ result.tax_amount =
              Round2(Div(Max0(Sub(call.gain, Whole(125000))), Whole(8)))
        /\ result.tax_applicable <=> Gt(call.gain, Whole(125000))
        /\ call.gain = Whole(125000) =>
              (~result.tax_applicable /\ result.tax_amount = Zero)
        /\ call.gain = Whole(125001) =>
              (result.tax_applicable
               /\ result.tax_amount = Round2(Dec(0, 1250)))

C2_Witness ==
    /\ Returned("calculate_tax_equity")
    /\ call.gain = Whole(125001)
    /\ call.holding_period_months = 13
    /\ result.tax_applicable
    /\ result.tax_amount = Cents(12)

\* C3: a gain that is zero or negative is returned untaxed by both tax
\* functions, whatever the holding period or the slab: tax 0, not applicable,
\* and gain_after_tax the very gain that was passed in.
C3_LossPassThrough ==
    ((Returned("calculate_tax_equity") \/ Returned("calculate_tax_debt"))
     /\ Le(call.gain, Zero)) =>
        /\ result.tax_amount = Zero
        /\ result.tax_applicable = FALSE
        /\ result.gain_after_tax = call.gain

C3_Witness ==
    /\ Returned("calculate_tax_equity")
    /\ call.gain = Neg(Whole(5000))
    /\ call.holding_period_months = 24
    /\ result.tax_amount = Zero
    /\ result.gain_after_tax = Neg(Whole(5000))

\* C4: for a positive gain and an enumerated slab, calculate_tax_debt returns
\* slab% of the gain as the tax and the gain less that tax as gain_after_tax,
\* each rounded to the hundredth.
C4_DebtSlabTax ==
    (Returned("calculate_tax_debt") /\ Gt(call.gain, Zero)
     /\ call.investor_slab \in EnumeratedSlabs) =>
        LET tax == Div(Mul(call.gain, Whole(SlabPercent(call.investor_slab))),
                       Whole(100))
        IN  /\ result.tax_amount = Round2(tax)
            /\ result.gain_after_tax = Round2(Sub(call.gain, tax))

C4_Witness ==
    /\ Returned("calculate_tax_debt")
    /\ call.gain = Whole(100000)
    /\ call.investor_slab = "30%"
    /\ result.tax_amount = Whole(30000)
    /\ result.gain_after_tax = Whole(70000)

\* the call taxes a debt fund at the slab it was given
DebtTaxedCall ==
    /\ pc = "returned"
    /\ call.fn \in {"calculate_sip", "calculate_lumpsum",
                    "calculate_sip_with_hold_period",
                    "calculate_lumpsum_with_hold_period"}
    /\ call.calculate_tax
    /\ Lower(call.fund_type) # "equity"

\* C5: a slab outside the enumerated set is answered with an error result,
\* by calculate_tax_debt itself and by every growth calculator that taxes a
\* debt fund at that slab.
C5_UnknownSlabRejected ==
    /\ (Returned("calculate_tax_debt") /\ call.investor_slab \notin EnumeratedSlabs)
          => IsError
    /\ (DebtTaxedCall /\ call.investor_tax_slab \notin EnumeratedSlabs)
          => IsError

\* x and y are the same amount of money: they round to the same hundredth
\* (the float difference of two amounts in hundredths is not itself one)
SameHundredth(x, y) == Round2(x) = Round2(y)

\* C6 as stated: on the returned values of both tax functions
\* gain_after_tax = gain - tax_amount holds exactly.
C6_ExactAfterTaxIdentity ==
    (Returned("calculate_tax_equity") \/ Returned("calculate_tax_debt")) =>
        SameHundredth(result.gain_after_tax, Sub(result.gain, result.tax_amount))

\* C6, amended: on the returned values of both tax functions gain_after_tax
\* is gain - tax_amount to within one hundredth, and exactly so when the gain
\* is not positive (nothing is rounded then).
C6_AfterTaxIdentityToTheCent ==
    (Returned("calculate_tax_equity") \/ Returned("calculate_tax_debt")) =>
        /\ Within(result.gain_after_tax, Sub(result.gain, result.tax_amount), Cent)
        /\ Le(call.gain, Zero) =>
              result.gain_after_tax = Sub(result.gain, result.tax_amount)

\* a taxed positive gain whose three rounded fields are one hundredth apart
C6_Witness ==
    /\ Returned("calculate_tax_equity")
    /\ Gt(call.gain, Zero)
    /\ result.tax_applicable
    /\ ~SameHundredth(result.gain_after_tax, Sub(result.gain, result.tax_amount))
    /\ Within(result.gain_after_tax, Sub(result.gain, result.tax_amount), Cent)

GrowthCall == Returned("calculate_sip") \/ Returned("calculate_lumpsum")
\* the money put in, as a growth result names it
Invested == IF call.fn = "calculate_sip" THEN result.total_invested ELSE result.principal

RECURSIVE SumOf(_, _)
\* c + c + ... + c, n times, summed by halves
SumOf(c, n) ==
    IF n = 0 THEN Zero
    ELSE IF n % 2 = 0 THEN LET h == SumOf(c, n \div 2) IN Add(h, h)
    ELSE Add(SumOf(c, n - 1), c)

\* hundredths only: rounding to the hundredth changes nothing
WholeCents(x) == Round2(x) = x

\* C8: at rate 0 a valid periodic contribution c over n months matures to the
\* n contributions and nothing more: maturity_amount and total_invested are
\* both c*n (to the hundredth, and exactly c*n when c is in whole hundredths)
\* and the gain is 0; the same holds for the investment phase of
\* calculate_sip_with_hold_period.
C8_ZeroRate ==
    /\ (Returned("calculate_sip") /\ ~IsError /\ IsZero(call.annual_return_rate)) =>
          LET paid == SumOf(call.monthly_investment, call.years * 12)
          IN  /\ result.maturity_amount = Round2(paid)
              /\ result.total_invested = Round2(paid)
              /\ result.gain = Zero
              /\ WholeCents(call.monthly_investment) => result.maturity_amount = paid
    /\ (Returned("calculate_sip_with_hold_period") /\ ~IsError
        /\ IsZero(call.annual_return_rate)) =>
          LET paid == SumOf(call.monthly_investment, call.investment_years * 12)
          IN  /\ result.maturity_after_investment = Round2(paid)
              /\ result.total_invested = Round2(paid)
              /\ result.gain_during_investment = Zero
              /\ WholeCents(call.monthly_investment) =>
                    result.maturity_after_investment = paid

C8_Witness ==
    /\ Returned("calculate_sip")
    /\ call.monthly_investment = Whole(5000)
    /\ IsZero(call.annual_return_rate)
    /\ call.years = 10
    /\ result.maturity_amount = Whole(600000)
    /\ result.gain = Zero

RECURSIVE Growth(_, _)
\* sum: g + g^2 + ... + g^n, what one unit paid in at the start of each of n
\* months has grown to at the monthly factor g; pw: g^n.  Summed by halves.
Growth(g, n) ==
    IF n = 0 THEN [sum |-> Zero, pw |-> One]
    ELSE IF n % 2 = 0
    THEN LET h == Growth(g, n \div 2)
         IN  [sum |-> Add(h.sum, Mul(h.pw, h.sum)), pw |-> Mul(h.pw, h.pw)]
    ELSE LET p == Growth(g, n - 1)
         IN  [sum |-> Mul(g, Add(One, p.sum)), pw |-> Mul(g, p.pw)]

\* the balance after n months when c is paid in at the start of each month
\* and every payment earns r a month from then on
AnnuityDue(c, r, n) == Mul(c, Growth(Add(One, r), n).sum)

\* C9: for a valid input at a positive rate calculate_sip returns the future
\* value of an annuity-due at the monthly rate annual_return_rate/1200 over
\* years*12 months, and total_invested = c * months; 5000 a month at 12% over
\* 120 months matures to 1161695.38 with 600000 invested.
C9_AnnuityDue ==
    (Returned("calculate_sip") /\ ~IsError /\ Gt(call.annual_return_rate, Zero)) =>
        LET r == Div(call.annual_return_rate, Whole(1200))
            n == call.years * 12
        IN  /\ Within(result.maturity_amount,
                      Round2(AnnuityDue(call.monthly_investment, r, n)), Cent)
            /\ result.total_invested = Round2(SumOf(call.monthly_investment, n))
            /\ (call.monthly_investment = Whole(5000)
                /\ call.annual_return_rate = Whole(12) /\ n = 120) =>
                  (result.maturity_amount = Dec(1161695, 3800)
                   /\ result.total_invested = Whole(600000))

C9_Witness ==
    /\ Returned("calculate_sip")
    /\ call.monthly_investment = Whole(5000)
    /\ call.annual_return_rate = Whole(12)
    /\ call.years = 10
    /\ result.maturity_amount = Dec(1161695, 3800)
    /\ result.total_invested = Whole(600000)

RECURSIVE Compounded(_, _, _)
\* p after n years, the interest of each year added to the balance
Compounded(p, rate, n) ==
    IF n = 0 THEN p
    ELSE LET b == Compounded(p, rate, n - 1)
         IN  Add(b, Div(Mul(b, rate), Whole(100)))

\* C10: for a valid input calculate_lumpsum returns the principal compounded
\* yearly at annual_return_rate percent over the years, rate 0 included: then
\* maturity_amount is the principal and the gain is 0; 100000 at 12% over 10
\* years matures to 310584.82.
C10_CompoundInterest ==
    (Returned("calculate_lumpsum") /\ ~IsError) =>
        /\ Within(result.maturity_amount,
                  Round2(Compounded(call.principal, call.annual_return_rate,
                                    call.years)), Cent)
        /\ IsZero(call.annual_return_rate) =>
              (result.maturity_amount = result.principal /\ result.gain = Zero)
        /\ (call.principal = Whole(100000) /\ call.annual_return_rate = Whole(12)
            /\ call.years = 10) =>
              result.maturity_amount = Dec(310584, 8200)

C10_Witness ==
    /\ Returned("calculate_lumpsum")
    /\ call.principal = Whole(100000)
    /\ call.annual_return_rate = Whole(12)
    /\ call.years = 10
    /\ result.maturity_amount = Dec(310584, 8200)

----------------------------------------------------------------------------
(* Input validation                                                        *)

GrowthEntryPoints ==
    {"calculate_sip", "calculate_lumpsum",
     "calculate_sip_with_hold_period", "calculate_lumpsum_with_hold_period"}
HoldEntryPoints ==
    {"calculate_sip_with_hold_period", "calculate_lumpsum_with_hold_period"}

\* a growth entry point was called and the call has ended, one way or the other
GrowthCallEnded == pc # "ready" /\ call.fn \in GrowthEntryPoints

\* the contribution or principal, and the required duration, of a growth call
CallAmount ==
    IF call.fn \in {"calculate_sip", "calculate_sip_with_hold_period"}
    THEN call.monthly_investment ELSE call.principal
CallDuration ==
    IF call.fn \in HoldEntryPoints THEN call.investment_years ELSE call.years

\* the conditions under which a growth call is to be refused
RefusedGrowthCall ==
    \/ Le(CallAmount, Zero)
    \/ Lt(call.annual_return_rate, Zero)
    \/ CallDuration <= 0
    \/ (call.fn \in HoldEntryPoints /\ call.hold_years < 0)

\* C11: every growth entry point returns an error result, and raises nothing,
\* when the contribution or principal is <= 0, the rate < 0, the required
\* duration <= 0 or hold_years < 0; for every other input, hold_years = 0
\* included, it returns a value result.
C11_ErrorResultIffRefused ==
    GrowthCallEnded =>
        /\ pc = "returned"
        /\ IsError <=> RefusedGrowthCall

\* C12: calculate_required_return returns an error result exactly when the
\* target is not above the principal, the principal is not positive or the
\* years are not positive; the rate of every other result is strictly
\* positive before it is rounded, and so never negative once rounded.
C12_RequiredReturnRefusals ==
    Returned("calculate_required_return") =>
        /\ IsError <=> (\/ Le(call.target_amount, call.principal)
                        \/ Le(call.principal, Zero)
                        \/ call.years <= 0)
        /\ ~IsError =>
              /\ Gt(required_rate(call.principal, call.target_amount, call.years), Zero)
              /\ Ge(result.required_return_percentage, Zero)

\* a target one hundredth above the principal: accepted, a positive rate that
\* rounds to 0
C12_Witness ==
    /\ Returned("calculate_required_return")
    /\ call.principal = Whole(100000)
    /\ call.target_amount = Dec(100000, 100)
    /\ call.years = 10
    /\ ~IsError
    /\ Gt(required_rate(call.principal, call.target_amount, call.years), Zero)
    /\ result.required_return_percentage = Zero

\* C13: the required return inverts lumpsum growth: growing the principal at
\* the returned rate over the same years gives the target back to within
\* 0.01% of the target per year (what rounding the rate to the hundredth of a
\* percent can cost) and a hundredth; and the returned rate is the exact rate
\* rounded to two decimals: half a hundredth of a percent less does not reach
\* the target, half a hundredth more does not fall short of it.  100000 to
\* 310584.82 over 10 years needs 12.0, 100000 to 200000 needs 7.18.
C13_RoundTrip ==
    (Returned("calculate_required_return") /\ ~IsError) =>
        LET P    == call.principal
            T    == call.target_amount
            n    == call.years
            r    == result.required_return_percentage
            back == calculate_lumpsum(P, r, n, "equity", "30%", FALSE)
            slack == Dec(0, 1)
        IN  /\ Within(back.maturity_amount, T,
                      Add(Div(Mul(T, Whole(n)), Whole(10000)), Cent))
            /\ Le(LumpsumFutureValue(P, Sub(r, Dec(0, 50)), n), Add(T, slack))
            /\ Ge(LumpsumFutureValue(P, Add(r, Dec(0, 50)), n), Sub(T, slack))
            /\ (P = Whole(100000) /\ T = Dec(310584, 8200) /\ n = 10) => r = Whole(12)
            /\ (P = Whole(100000) /\ T = Whole(200000) /\ n = 10) => r = Dec(7, 1800)

\* doubling 100000 in 10 years: 7.18%, which grows 100000 to 200049.53
C13_Witness ==
    /\ Returned("calculate_required_return")
    /\ call.principal = Whole(100000)
    /\ call.target_amount = Whole(200000)
    /\ call.years = 10
    /\ result.required_return_percentage = Dec(7, 1800)
    /\ Within(calculate_lumpsum(call.principal, result.required_return_percentage,
                                call.years, "equity", "30%", FALSE).maturity_amount,
              call.target_amount, Whole(200))
    /\ calculate_lumpsum(call.principal, result.required_return_percentage,
                         call.years, "equity", "30%", FALSE).maturity_amount
          = Dec(200049, 5300)

----------------------------------------------------------------------------
(* Phase composition                                                       *)

\* a hold-period calculator has returned a value result
SipHoldValue == Returned("calculate_sip_with_hold_period") /\ ~IsError
LumpsumHoldValue == Returned("calculate_lumpsum_with_hold_period") /\ ~IsError
HoldValue == SipHoldValue \/ LumpsumHoldValue

\* C14: with hold_years = 0 both hold-period calculators return final_maturity
\* equal to maturity_after_investment and total_gain equal to
\* gain_during_investment, exactly, and no record of the trajectory is a Hold
\* record.
C14_NoHoldPhase ==
    (HoldValue /\ call.hold_years = 0) =>
        /\ result.final_maturity = result.maturity_after_investment
        /\ result.total_gain = result.gain_during_investment
        /\ \A i \in DOMAIN result.year_wise_data :
              result.year_wise_data[i].phase # "Hold"

C14_Witness ==
    /\ SipHoldValue
    /\ call.hold_years = 0
    /\ call.investment_years = 2
    /\ call.monthly_investment = Whole(5000)
    /\ call.annual_return_rate = Whole(12)
    /\ result.final_maturity = result.maturity_after_investment
    /\ Gt(result.final_maturity, result.total_invested)
    /\ Len(result.year_wise_data) = 2

\* C15: with hold_years = 0 a hold-period calculator agrees with the plain
\* growth calculator called with the same amount, rate, years and tax
\* settings: on the maturity (final_maturity = maturity_amount), on the money
\* invested, on the gain and, when tax is calculated, on tax_info and on the
\* maturity after tax.
C15_DegeneratesToPlainGrowth ==
    /\ (SipHoldValue /\ call.hold_years = 0) =>
          LET plain == calculate_sip(call.monthly_investment, call.annual_return_rate,
                                     call.investment_years, call.fund_type,
                                     call.investor_tax_slab, call.calculate_tax)
          IN  /\ result.final_maturity = plain.maturity_amount
              /\ result.total_invested = plain.total_invested
              /\ result.total_gain = plain.gain
              /\ call.calculate_tax =>
                    /\ result.tax_info = plain.tax_info
                    /\ result.final_maturity_after_tax = plain.maturity_after_tax
    /\ (LumpsumHoldValue /\ call.hold_years = 0) =>
          LET plain == calculate_lumpsum(call.principal, call.annual_return_rate,
                                         call.investment_years, call.fund_type,
                                         call.investor_tax_slab, call.calculate_tax)
          IN  /\ result.final_maturity = plain.maturity_amount
              /\ result.total_invested = plain.principal
              /\ result.total_gain = plain.gain
              /\ call.calculate_tax =>
                    /\ result.tax_info = plain.tax_info
                    /\ result.final_maturity_after_tax = plain.maturity_after_tax

\* an equity lumpsum taxed after two years of investment and no hold
C15_Witness ==
    /\ LumpsumHoldValue
    /\ call.hold_years = 0
    /\ call.investment_years = 2
    /\ call.principal = Whole(100000)
    /\ call.annual_return_rate = Whole(12)
    /\ call.calculate_tax
    /\ call.fund_type = "equity"
    /\ result.final_maturity = Whole(125440)
    /\ result.tax_info.tax_type = "LTCG"
    /\ result.final_maturity_after_tax = Whole(125440)

\* C16: the trajectory of a hold-period calculator has one record per year of
\* both phases: the i-th record is the record of year i, an Investment record
\* up to investment_years and a Hold record after; so the years ascend from 1
\* to investment_years + hold_years without gap or duplicate and every
\* Investment record precedes every Hold record.
C16_Trajectory ==
    HoldValue =>
        LET data == result.year_wise_data
        IN  /\ Len(data) = call.investment_years + call.hold_years
            /\ \A i \in DOMAIN data :
                  /\ data[i].year = i
                  /\ data[i].phase = IF i <= call.investment_years
                                     THEN "Investment" ELSE "Hold"
            /\ \A i, j \in DOMAIN data :
                  (data[i].phase = "Investment" /\ data[j].phase = "Hold") => i < j

C16_Witness ==
    /\ LumpsumHoldValue
    /\ call.investment_years = 2
    /\ call.hold_years = 2
    /\ Len(result.year_wise_data) = 4
    /\ result.year_wise_data[2].phase = "Investment"
    /\ result.year_wise_data[3].phase = "Hold"
    /\ result.year_wise_data[4].year = 4

\* C17: the record of every investment year y carries the figures of a direct
\* call of the growth calculator over y years: its amount, invested and gain
\* are maturity_amount, total_invested (principal) and gain of calculate_sip
\* (calculate_lumpsum) for y years; the record of the last investment year
\* has the amount maturity_after_investment.
C17_RecordsMatchDirectCalls ==
    /\ SipHoldValue =>
          /\ \A y \in 1..call.investment_years :
                LET direct == calculate_sip(call.monthly_investment,
                                            call.annual_return_rate, y,
                                            call.fund_type, call.investor_tax_slab, FALSE)
                    rec    == result.year_wise_data[y]
                IN  /\ rec.amount = direct.maturity_amount
                    /\ rec.invested = direct.total_invested
                    /\ rec.gain = direct.gain
          /\ result.year_wise_data[call.investment_years].amount
                = result.maturity_after_investment
    /\ LumpsumHoldValue =>
          /\ \A y \in 1..call.investment_years :
                LET direct == calculate_lumpsum(call.principal,
                                                call.annual_return_rate, y,
                                                call.fund_type, call.investor_tax_slab, FALSE)
                    rec    == result.year_wise_data[y]
                IN  /\ rec.amount = direct.maturity_amount
                    /\ rec.invested = direct.principal
                    /\ rec.gain = direct.gain
          /\ result.year_wise_data[call.investment_years].amount
                = result.maturity_after_investment

\* 5000 a month at 12%: 64046.64 after the first year, 136216.00 after the second
C17_Witness ==
    /\ SipHoldValue
    /\ call.monthly_investment = Whole(5000)
    /\ call.annual_return_rate = Whole(12)
    /\ call.investment_years = 2
    /\ result.year_wise_data[1].amount = Dec(64046, 6400)
    /\ result.year_wise_data[1].invested = Whole(60000)
    /\ result.year_wise_data[2].amount = result.maturity_after_investment
    /\ result.year_wise_data[2].amount = Whole(136216)

\* C18: in calculate_sip_with_hold_period the record of hold year k carries
\* the closing balance of the investment phase compounded yearly at
\* annual_return_rate percent over k years (to the hundredth), the money
\* invested by the end of the investment phase, the same in every Hold
\* record, and as gain the amount less that money (to the hundredth); the
\* record of the last hold year has the amount final_maturity.
C18_HoldLeg ==
    SipHoldValue =>
        LET closing == SipFutureValue(call.monthly_investment,
                                      Div(call.annual_return_rate, Whole(1200)),
                                      call.investment_years * 12)
            last    == call.investment_years + call.hold_years
        IN  /\ \A k \in 1..call.hold_years :
                  LET rec == result.year_wise_data[call.investment_years + k]
                  IN  /\ Within(rec.amount,
                                Round2(Compounded(closing, call.annual_return_rate, k)),
                                Cent)
                      /\ rec.invested = result.total_invested
                      /\ Within(rec.gain, Sub(rec.amount, result.total_invested), Cent)
            /\ call.hold_years > 0 =>
                  result.year_wise_data[last].amount = result.final_maturity

\* 5000 a month at 12% for two years, held two more: 136216.00 grows to
\* 152561.92 and to 170869.35, at 12% a year
C18_Witness ==
    /\ SipHoldValue
    /\ call.monthly_investment = Whole(5000)
    /\ call.annual_return_rate = Whole(12)
    /\ call.investment_years = 2
    /\ call.hold_years = 2
    /\ result.year_wise_data[3].amount = Dec(152561, 9200)
    /\ result.year_wise_data[3].invested = Whole(120000)
    /\ result.year_wise_data[4].amount = Dec(170869, 3500)
    /\ result.final_maturity = Dec(170869, 3500)

\* a hold-period calculator has returned a value result with the tax calculated
TaxedHoldValue == HoldValue /\ call.calculate_tax

\* C19: a hold-period calculator that calculates tax does so once, on
\* total_gain (the gain of tax_info is total_gain, to the hundredth), the
\* final maturity less the money invested, and
\* final_maturity_after_tax is the money invested plus what the tax leaves of
\* that gain; an equity fund is classified by the months of both phases
\* together, so its gain is short-term only when investment_years +
\* hold_years = 1.
C19_TaxOnCombinedHolding ==
    TaxedHoldValue =>
        LET months == (call.investment_years + call.hold_years) * 12
            tax    == result.tax_info
        IN  /\ Round2(tax.gain) = result.total_gain
            /\ Within(result.total_gain,
                      Sub(result.final_maturity, result.total_invested), Cent)
            /\ Within(result.final_maturity_after_tax,
                      Add(result.total_invested, tax.gain_after_tax), Cent)
            /\ Lower(call.fund_type) = "equity" =>
                  /\ tax.holding_period_months = months
                  /\ Gt(tax.gain, Zero) =>
                        /\ tax.tax_type = (IF months > 12 THEN "LTCG" ELSE "STCG")
                        /\ (tax.tax_type = "STCG") <=>
                              (call.investment_years + call.hold_years = 1)

\* one year of investment and one of hold: long-term, though neither phase
\* alone is longer than 12 months
C19_Witness ==
    /\ TaxedHoldValue
    /\ call.fn = "calculate_lumpsum_with_hold_period"
    /\ call.fund_type = "equity"
    /\ call.principal = Whole(100000)
    /\ call.annual_return_rate = Whole(50)
    /\ call.investment_years = 1
    /\ call.hold_years = 1
    /\ result.tax_info.holding_period_months = 24
    /\ result.tax_info.tax_type = "LTCG"
    /\ result.tax_info.gain = Whole(125000)
    /\ result.tax_info.tax_amount = Zero

----------------------------------------------------------------------------
(* Comparison                                                              *)

\* C20: compare_investments returns the results of calculate_sip and
\* calculate_lumpsum called with its own rate, years, fund type, slab and tax
\* flag (an error result when either of them is one); it goes by their
\* maturities after tax when tax is calculated and by their maturities before
\* tax otherwise, and names SIP the better option iff the figure of the SIP
\* is strictly the greater: a tie names Lumpsum.
C20_BetterOption ==
    Returned("compare_investments") =>
        LET s  == calculate_sip(call.monthly_sip, call.annual_return_rate, call.years,
                                call.fund_type, call.investor_tax_slab, call.calculate_tax)
            l  == calculate_lumpsum(call.lumpsum, call.annual_return_rate, call.years,
                                    call.fund_type, call.investor_tax_slab,
                                    call.calculate_tax)
            sf == IF call.calculate_tax THEN s.maturity_after_tax ELSE s.maturity_amount
            lf == IF call.calculate_tax THEN l.maturity_after_tax ELSE l.maturity_amount
        IN  /\ IsError <=> ("error" \in DOMAIN s \/ "error" \in DOMAIN l)
            /\ ~IsError =>
                  /\ result.sip = s
                  /\ result.lumpsum = l
                  /\ result.better_option \in {"SIP", "Lumpsum"}
                  /\ (result.better_option = "SIP") <=> Gt(sf, lf)
                  /\ sf = lf => result.better_option = "Lumpsum"

\* 5000 a month against 600000 at once, at rate 0 over 10 years: a tie
C20_Witness ==
    /\ Returned("compare_investments")
    /\ call.monthly_sip = Whole(5000)
    /\ call.lumpsum = Whole(600000)
    /\ IsZero(call.annual_return_rate)
    /\ call.years = 10
    /\ call.calculate_tax
    /\ result.sip.maturity_after_tax = result.lumpsum.maturity_after_tax
    /\ result.difference = Zero
    /\ result.better_option = "Lumpsum"

\* C21: the tax never decreases with the gain. For a fixed holding period
\* (calculate_tax_equity) or a fixed slab (calculate_tax_debt), the tax_amount
\* returned for the gain of the call is at least the tax_amount returned for
\* every smaller gain, losses, zero and the two sides of 125000 included.
C21_TaxMonotone ==
    /\ Returned("calculate_tax_equity") =>
          \A g1 \in GainValues :
              Le(g1, call.gain) =>
                  Le(calculate_tax_equity(g1, call.holding_period_months).tax_amount,
                     result.tax_amount)
    /\ Returned("calculate_tax_debt") =>
          \A g1 \in GainValues :
              Le(g1, call.gain) =>
                  Le(calculate_tax_debt(g1, call.investor_slab).tax_amount,
                     result.tax_amount)

\* a long-term gain of 150000: its tax of 3125 is above the 0.12 of 125001,
\* which is above the nothing of 125000 and of a loss
C21_Witness ==
    /\ Returned("calculate_tax_equity")
    /\ call.gain = Whole(150000)
    /\ call.holding_period_months = 13
    /\ result.tax_amount = Whole(3125)
    /\ calculate_tax_equity(Whole(125001), 13).tax_amount = Cents(12)
    /\ calculate_tax_equity(Whole(125000), 13).tax_amount = Zero
    /\ calculate_tax_equity(Neg(Whole(5000)), 13).tax_amount = Zero

\* a tax function has returned its mapping
TaxCall == Returned("calculate_tax_equity") \/ Returned("calculate_tax_debt")

\* C22: every tax result carries a tax type: whatever the gain, the holding
\* period and the slab, the mapping returned by calculate_tax_equity and by
\* calculate_tax_debt has the field tax_type, one of LTCG, STCG and slab, and
\* so has the tax_info of every growth result that has one.
C22_TaxTypePresent ==
    /\ TaxCall =>
          /\ "tax_type" \in DOMAIN result
          /\ result.tax_type \in {"LTCG", "STCG", "slab"}
    /\ (pc = "returned" /\ "tax_info" \in DOMAIN result) =>
          /\ "tax_type" \in DOMAIN result.tax_info
          /\ result.tax_info.tax_type \in {"LTCG", "STCG", "slab"}

\* the tax of an equity gain before any rounding: a fifth of the gain held up
\* to 12 months, an eighth of its excess over 125000 held longer
UnroundedEquityTax(gain, holding_period_months) ==
    IF holding_period_months > 12
    THEN Div(Max0(Sub(gain, Whole(125000))), Whole(8))
    ELSE Div(gain, Whole(5))

\* C23 as stated: on every tax result effective_tax_rate is the result's
\* tax_amount over its gain, times 100 (here: to the hundredth), when the gain
\* is positive and 0 otherwise; a debt result of an enumerated slab has the
\* slab rate and an LTCG result a rate below 12.5.
C23_EffectiveRateOfFields ==
    TaxCall =>
        /\ Le(call.gain, Zero) => result.effective_tax_rate = Zero
        /\ Gt(call.gain, Zero) =>
              /\ Within(result.effective_tax_rate,
                        Mul(Div(result.tax_amount, result.gain), Hundred), Cent)
              /\ (call.fn = "calculate_tax_debt"
                  /\ call.investor_slab \in EnumeratedSlabs) =>
                    result.effective_tax_rate = Whole(SlabPercent(call.investor_slab))
              /\ (call.fn = "calculate_tax_equity"
                  /\ call.holding_period_months > 12) =>
                    Lt(result.effective_tax_rate, EQUITY_LTCG_RATE)

\* C23, amended: effective_tax_rate is 0 when the gain is not positive; for a
\* positive equity gain it is the unrounded tax over the gain passed in, times
\* 100, rounded to the hundredth (20 for STCG, at most 12.5 for LTCG and
\* below 12.5 before it is rounded); for a positive debt gain it is the slab
\* rate when the slab is enumerated, and 0 with a tax of 0 otherwise.
C23_EffectiveRate ==
    TaxCall =>
        /\ Le(call.gain, Zero) => result.effective_tax_rate = Zero
        /\ (call.fn = "calculate_tax_equity" /\ Gt(call.gain, Zero)) =>
              LET rate == Mul(Div(UnroundedEquityTax(call.gain,
                                                     call.holding_period_months),
                                  call.gain), Hundred)
              IN  /\ result.effective_tax_rate = Round2(rate)
                  /\ call.holding_period_months <= 12 =>
                        result.effective_tax_rate = EQUITY_STCG_RATE
                  /\ call.holding_period_months > 12 =>
                        /\ Lt(rate, EQUITY_LTCG_RATE)
                        /\ Le(result.effective_tax_rate, EQUITY_LTCG_RATE)
        /\ (call.fn = "calculate_tax_debt" /\ Gt(call.gain, Zero)) =>
              IF call.investor_slab \in EnumeratedSlabs
              THEN result.effective_tax_rate = Whole(SlabPercent(call.investor_slab))
              ELSE result.effective_tax_rate = Zero /\ result.tax_amount = Zero

\* a long-term gain of a hundred crore: taxed at 12.4984375%, reported as 12.5
C23_Witness ==
    /\ Returned("calculate_tax_equity")
    /\ call.gain = Whole(1000000000)
    /\ call.holding_period_months = 24
    /\ result.tax_amount = Whole(124984375)
    /\ result.effective_tax_rate = EQUITY_LTCG_RATE

\* the entry points that answer invalid input with the error result
EngineEntryPoints ==
    GrowthEntryPoints \cup {"compare_investments", "calculate_required_return"}

\* the field that carries the answer of a value result
AnswerField ==
    CASE call.fn \in {"calculate_sip", "calculate_lumpsum"} -> "maturity_amount"
      [] call.fn \in HoldEntryPoints -> "final_maturity"
      [] call.fn = "compare_investments" -> "better_option"
      [] call.fn = "calculate_required_return" -> "required_return_percentage"

\* a leg of the comparison is invalid
InvalidLeg ==
    \/ Le(call.monthly_sip, Zero)
    \/ Le(call.lumpsum, Zero)
    \/ Lt(call.annual_return_rate, Zero)
    \/ call.years <= 0

\* C24: a result returned by calculate_sip, calculate_lumpsum,
\* compare_investments, calculate_required_return or a hold-period calculator
\* is either the error result, with the error key and nothing else, or a
\* value result, with its answer and no error key; compare_investments
\* returns the error result whenever its SIP leg or its lumpsum leg is
\* invalid, and otherwise both legs it returns are value results.
C24_AllOrNothing ==
    (pc = "returned" /\ call.fn \in EngineEntryPoints) =>
        /\ IsError => DOMAIN result = {"error"}
        /\ ~IsError => AnswerField \in DOMAIN result
        /\ call.fn = "compare_investments" =>
              /\ IsError <=> InvalidLeg
              /\ ~IsError =>
                    /\ "error" \notin DOMAIN result.sip
                    /\ "error" \notin DOMAIN result.lumpsum
                    /\ "maturity_amount" \in DOMAIN result.sip
                    /\ "maturity_amount" \in DOMAIN result.lumpsum

\* a comparison whose SIP leg is valid and whose lumpsum is negative: the
\* error result alone, although calculate_sip has a value for the SIP leg
C24_Witness ==
    /\ Returned("compare_investments")
    /\ call.monthly_sip = Whole(5000)
    /\ call.lumpsum = Neg(Whole(100))
    /\ call.annual_return_rate = Whole(12)
    /\ call.years = 10
    /\ result = InvalidInput
    /\ ~("error" \in DOMAIN calculate_sip(call.monthly_sip, call.annual_return_rate,
                                          call.years, call.fund_type,
                                          call.investor_tax_slab, call.calculate_tax))

----------------------------------------------------------------------------
(* Phase boundary and trajectory                                           *)

\* the maturity calculate_lumpsum returns for the principal and the rate of
\* the call over the given years
DirectLumpsum(years) ==
    calculate_lumpsum(call.principal, call.annual_return_rate, years,
                      call.fund_type, call.investor_tax_slab,
                      call.calculate_tax).maturity_amount

\* C25 as stated: for a valid lumpsum held after its investment phase
\* final_maturity equals the maturity_amount of calculate_lumpsum over
\* investment_years + hold_years, and the Hold record of hold year k has the
\* amount of one compounding over investment_years + k years.
C25_PhaseBoundaryExact ==
    LumpsumHoldValue =>
        /\ result.final_maturity =
              DirectLumpsum(call.investment_years + call.hold_years)
        /\ \A k \in 1..call.hold_years :
              result.year_wise_data[call.investment_years + k].amount =
                 DirectLumpsum(call.investment_years + k)

\* C25, amended: final_maturity and the maturity_amount of calculate_lumpsum
\* over investment_years + hold_years differ by at most one hundredth, and
\* so do the amount of the Hold record of hold year k and the maturity of one
\* compounding over investment_years + k years; with no hold phase, and at
\* rate 0, they are equal.
C25_PhaseBoundaryToTheCent ==
    LumpsumHoldValue =>
        /\ Within(result.final_maturity,
                  DirectLumpsum(call.investment_years + call.hold_years), Cent)
        /\ \A k \in 1..call.hold_years :
              Within(result.year_wise_data[call.investment_years + k].amount,
                     DirectLumpsum(call.investment_years + k), Cent)
        /\ (call.hold_years = 0 \/ IsZero(call.annual_return_rate)) =>
              result.final_maturity =
                 DirectLumpsum(call.investment_years + call.hold_years)

\* 5000 at 5% invested for one year and held for two: 5788.12, where three
\* years of calculate_lumpsum give 5788.13
C25_Witness ==
    /\ LumpsumHoldValue
    /\ call.principal = Whole(5000)
    /\ call.annual_return_rate = Whole(5)
    /\ call.investment_years = 1
    /\ call.hold_years = 2
    /\ result.final_maturity = Dec(5788, 1200)
    /\ result.year_wise_data[3].amount = Dec(5788, 1200)
    /\ DirectLumpsum(3) = Dec(5788, 1300)

\* C26: along the year_wise_data of a valid hold-period calculation (rate
\* >= 0) the amount never decreases, the Investment-to-Hold boundary
\* included, the invested money never decreases, and every record has
\* amount >= invested and so no negative gain.
C26_TrajectoryNeverFalls ==
    HoldValue =>
        LET records == result.year_wise_data
        IN  /\ \A y \in 1..(Len(records) - 1) :
                  /\ Le(records[y].amount, records[y + 1].amount)
                  /\ Le(records[y].invested, records[y + 1].invested)
            /\ \A y \in 1..Len(records) :
                  /\ Ge(records[y].amount, records[y].invested)
                  /\ Ge(records[y].gain, Zero)

----------------------------------------------------------------------------
(* Tax bounds                                                              *)

\* C27: the tax never exceeds the gain: for a gain > 0, whatever the holding
\* period and the slab, the result of calculate_tax_equity and of
\* calculate_tax_debt has 0 <= tax_amount <= gain and 0 <= gain_after_tax
\* <= gain, gain being the gain the result reports.
C27_TaxWithinGain ==
    (TaxCall /\ Gt(call.gain, Zero)) =>
        /\ Ge(result.tax_amount, Zero)
        /\ Le(result.tax_amount, result.gain)
        /\ Ge(result.gain_after_tax, Zero)
        /\ Le(result.gain_after_tax, result.gain)
        /\ result.gain \in {call.gain, Round2(call.gain)}

\* a short-term gain of 100000: a fifth of it is tax, the rest is kept
C27_Witness ==
    /\ Returned("calculate_tax_equity")
    /\ call.gain = Whole(100000)
    /\ call.holding_period_months = 6
    /\ result.tax_amount = Whole(20000)
    /\ result.gain_after_tax = Whole(80000)
    /\ Gt(result.tax_amount, Zero)
    /\ Lt(result.tax_amount, result.gain)
    /\ Lt(result.gain_after_tax, result.gain)

----------------------------------------------------------------------------
(* Maturity after tax                                                      *)

\* a growth entry point has returned a result that is not the error mapping
GrowthValue == pc = "returned" /\ call.fn \in GrowthEntryPoints /\ ~IsError

\* the names, in the result of the call, of the maturity after tax, and the
\* values of the maturity before tax and of the money invested
AfterKey ==
    IF call.fn \in HoldEntryPoints THEN "final_maturity_after_tax"
    ELSE "maturity_after_tax"
PreTax ==
    IF call.fn \in HoldEntryPoints THEN result.final_maturity
    ELSE result.maturity_amount
InvestedField ==
    IF call.fn = "calculate_lumpsum" THEN result.principal
    ELSE result.total_invested

\* tax_info and the maturity after tax are in the result exactly when
\* calculate_tax is set
TaxFieldsPresence ==
    /\ ("tax_info" \in DOMAIN result) <=> call.calculate_tax
    /\ (AfterKey \in DOMAIN result) <=> call.calculate_tax

\* C28 as the specification states it: in every non-error result of the four
\* growth calculators tax_info and the maturity after tax are present exactly
\* when calculate_tax is set, and then the maturity after tax is the money
\* invested plus tax_info.gain_after_tax, is the maturity before tax minus
\* tax_info.tax_amount, and is never more than the maturity before tax.
C28_AfterTaxExact ==
    GrowthValue =>
        /\ TaxFieldsPresence
        /\ call.calculate_tax =>
            /\ result[AfterKey] =
                   Round2(Add(InvestedField, result.tax_info.gain_after_tax))
            /\ result[AfterKey] =
                   Round2(Sub(PreTax, result.tax_info.tax_amount))
            /\ Le(result[AfterKey], PreTax)

\* C28: in every non-error result of the four growth calculators tax_info and
\* the maturity after tax are present exactly when calculate_tax is set, and
\* then the maturity after tax is within a hundredth of the money invested
\* plus tax_info.gain_after_tax and of the maturity before tax minus
\* tax_info.tax_amount, and is at most a hundredth more than the maturity
\* before tax; it is never more when the contribution or principal is a
\* whole number of hundredths.
C28_AfterTaxToTheCent ==
    GrowthValue =>
        /\ TaxFieldsPresence
        /\ call.calculate_tax =>
            /\ Within(result[AfterKey],
                      Add(InvestedField, result.tax_info.gain_after_tax), Cent)
            /\ Within(result[AfterKey],
                      Sub(PreTax, result.tax_info.tax_amount), Cent)
            /\ Le(result[AfterKey], Round2(Add(PreTax, Cent)))
            /\ CallAmount = Round2(CallAmount) => Le(result[AfterKey], PreTax)

\* 5000 a month for nine years at 5 %: 540000 invested, 140793.94 of the gain
\* left after 2256.28 of tax, so 680793.94 after tax, a hundredth more than
\* the maturity of 683050.21 less the tax
C28_Witness ==
    /\ Returned("calculate_sip")
    /\ call.monthly_investment = Whole(5000)
    /\ call.annual_return_rate = Whole(5)
    /\ call.years = 9
    /\ call.calculate_tax
    /\ Lower(call.fund_type) = "equity"
    /\ result.maturity_amount = Dec(683050, 2100)
    /\ result.tax_info.tax_amount = Dec(2256, 2800)
    /\ result.tax_info.gain_after_tax = Dec(140793, 9400)
    /\ result.maturity_after_tax = Dec(680793, 9400)
    /\ Round2(Sub(result.maturity_amount, result.tax_info.tax_amount)) = Dec(680793, 9300)

====
